---- MODULE Spec2Model ----
(***************************************************************************)
(* Share-link lifecycle and document download of the file manager          *)
(* (src/src/api/documents.py, src/src/services/minio_service.py).          *)
(*                                                                         *)
(* One document row of the record store, the object storage, the wall      *)
(* clock and the last request/response are the state.  Every HTTP handler  *)
(* is one action.  Optional (nullable) values are None == <<>> or          *)
(* Some(x) == <<x>>; strings that the code inspects character by character *)
(* (share codes, the Range header) are sequences of one-character strings. *)
(***************************************************************************)
EXTENDS Integers, Sequences, FiniteSets, TLC

VARIABLES
    docs,      \* record store: document id -> row (src.models.models.Document)
    storage,   \* object storage: minio_path -> bytes
    now,       \* wall clock, in ticks (datetime.now(timezone.utc))
    issued,    \* number of uuid4 share tokens generated so far
    held,      \* every token a row has ever stored (history)
    revoked,   \* every token a successful cancel has taken off a row (history)
    last,      \* the last request with the row it read and its response
    sessions   \* requests running concurrently: worker -> its database session

vars == <<docs, storage, now, issued, held, revoked, last, sessions>>

----------------------------------------------------------------------------
(* Nullable values.                                                        *)
None == <<>>
Some(x) == <<x>>
IsNone(o) == o = <<>>
IsSome(o) == o # <<>>
Val(o) == o[1]

Max2(a, b) == IF a >= b THEN a ELSE b
Min2(a, b) == IF a <= b THEN a ELSE b

----------------------------------------------------------------------------
(* Bounds of the model.                                                    *)
TicksPerSecond == 2      \* clock resolution: ticks per second
MaxTokens == 3           \* uuid4 tokens the model lets the program draw
MaxDownloads == 2        \* cap of the download counter
MaxOrphans == 1          \* stored objects left without a record
MaxSessions == 2         \* requests in flight at the same time

(* Program constants.                                                      *)
ShareDays == 7           \* timedelta(days=7)
MinExpires == 600        \* max(remaining_seconds, 600)
PreviewExpires == 600
ChunkSize == 8192        \* iterfile chunk_size

PermanentExpires == 24 * 60 * 60
Seconds(s) == s * TicksPerSecond
Days(d) == d * 24 * 60 * 60 * TicksPerSecond

(* int(timedelta.total_seconds()): truncation toward zero.                 *)
TruncSeconds(t) ==
    IF t >= 0 THEN t \div TicksPerSecond ELSE -((-t) \div TicksPerSecond)

(* The instants the clock is observed at.                                  *)
Instants ==
    { 0, 1,
      Days(ShareDays) - Seconds(3600),
      Days(ShareDays) - Seconds(50),
      Days(ShareDays),
      Days(ShareDays) + 1 }

After(t) == { u \in Instants : u > t }

(* What a later reading of the clock inside one handler may show: the same *)
(* tick, or the next instant.                                              *)
Later(t) ==
    {t} \cup { u \in After(t) : \A v \in After(t) : u <= v }

----------------------------------------------------------------------------
(* Principals, documents, tokens, codes.                                   *)
Users == {1, 2}
Admins == {1}
DocIds == {1}            \* ids the record store hands out
ReqDocIds == {1, 2}      \* ids a request may name
Tokens == 1 .. MaxTokens
ReqTokens == 0 .. MaxTokens      \* 0: a uuid string that is never generated

PUBLIC == "public"
WITH_PASSWORD == "with_password"
ShareTypes == {PUBLIC, WITH_PASSWORD}

AsciiDigits == {"0", "1", "2", "3", "4", "5", "6", "7", "8", "9"}
OtherDigits == {"ARABIC-INDIC DIGIT THREE"}   \* str.isdigit() is true of it

C1234 == <<"1", "2", "3", "4">>
C0042 == <<"0", "0", "4", "2">>
C12 == <<"1", "2">>
C12a4 == <<"1", "2", "a", "4">>
C12u4 == <<"1", "2", "ARABIC-INDIC DIGIT THREE", "4">>
Empty == <<>>

SuppliedCodes == {None, Some(Empty), Some(C1234), Some(C12), Some(C12a4), Some(C12u4)}
GeneratedCodes == {C0042, C1234}   \* samples of random.choices(string.digits, k=4)
ExpireDays == {None, Some(0), Some(1)}

(* Python truthiness of an Optional[str].                                  *)
Truthy(o) == IsSome(o) /\ Len(Val(o)) > 0

(* str.isdigit(): non-empty and every character a (Unicode) digit.         *)
IsDigit(s) ==
    /\ Len(s) > 0
    /\ \A i \in 1 .. Len(s) : s[i] \in AsciiDigits \cup OtherDigits

(* not share_code.isdigit() or len(share_code) != 4  ->  rejected          *)
ValidShareCode(s) == IsDigit(s) /\ Len(s) = 4

----------------------------------------------------------------------------
(* Errors.                                                                 *)
APIException(status, message) ==
    [status |-> status, message |-> message, details |-> None]

(* except Exception as e: raise APIException(500, message, {"error": str(e)}) *)
(* The handler's try block spans its whole body, so every exception raised  *)
(* inside it, APIException included, leaves as this one.                    *)
Wrapped(message, e) ==
    [status |-> 500, message |-> message, details |-> Some(e.message)]

Success(message, data) ==
    [status |-> 200, message |-> message, details |-> None, data |-> data]

----------------------------------------------------------------------------
(* No request is being served.                                             *)
Idle == [op |-> "idle"]
Ready == last = Idle

NewRow(user, path, size) ==
    [ uploader_id |-> user, is_public |-> FALSE, minio_path |-> path,
      file_size |-> size, download_count |-> 0,
      is_shared |-> FALSE, share_uuid |-> None, share_type |-> None,
      share_code |-> None, share_expired_at |-> None ]

Lookup(id) == IF id \in DOMAIN docs THEN Some(docs[id]) ELSE None

(* The workers that serve requests at the same time, each request with a   *)
(* database session of its own (Depends(get_db)).                          *)
Procs == 1 .. MaxSessions
NoSession == [pc |-> "none"]

Init ==
    /\ docs = << >>
    /\ storage = << >>
    /\ now = 0
    /\ issued = 0
    /\ held = {}
    /\ revoked = {}
    /\ last = Idle
    /\ sessions = [p \in Procs |-> NoSession]

----------------------------------------------------------------------------
(* What a request leaves in `last`.                                        *)
Record(op, req, resp) ==
    [op |-> op, req |-> req, pre |-> docs, held |-> held, at |-> now, resp |-> resp]

(* A request that fails before it commits: the session is discarded, the   *)
(* store, the storage and the token supply stay as they were.              *)
Fails(op, req, resp) ==
    /\ last' = Record(op, req, resp)
    /\ UNCHANGED <<docs, storage, issued, held, revoked>>

----------------------------------------------------------------------------
(* POST /documents/upload                                                  *)
UploadPath == Cardinality(DOMAIN storage) + 1     \* date/email-hash/uuid4
UploadId == CHOOSE id \in DocIds : id \notin DOMAIN docs

Orphans == Cardinality(DOMAIN storage) - Cardinality(DOMAIN docs)

(* What document_service.create may do: insert the row, or raise an        *)
(* IntegrityError (on the unique file_uuid, or another constraint), or     *)
(* raise anything else.                                                    *)
InsertOutcomes == {"ok", "unique", "constraint", "error"}

(* The try block: minio_service.upload_file first, document_service.create *)
(* after it; an exception of the first skips the second.                   *)
Persisted_DespitePutFailure(put_ok, insert) == insert = "ok"

Stored(put_ok) == put_ok
Persisted(put_ok, insert) == put_ok /\ insert = "ok"

UploadResponse(put_ok, insert, id) ==
    IF ~put_ok
    THEN Wrapped("Error uploading file", APIException(500, "S3Error"))
    ELSE IF insert = "unique"
    THEN APIException(400, "File UUID already exists, please try again")
    ELSE IF insert = "constraint"
    THEN APIException(400, "Database constraint violation")
    ELSE IF insert = "error"
    THEN Wrapped("Error uploading file", APIException(500, "SQLAlchemyError"))
    ELSE Success("File uploaded successfully", [id |-> id])

upload_document(user, content, put_ok, insert) ==
    LET req == [caller |-> user, content |-> content, put_ok |-> put_ok,
                insert |-> insert]
    IN
    /\ DocIds \ DOMAIN docs # {}
    /\ IF user \notin Admins
       THEN Fails("upload", req, APIException(403, "Not authorized"))
       ELSE /\ (Stored(put_ok) /\ ~Persisted(put_ok, insert)) => Orphans < MaxOrphans
            /\ storage' = IF Stored(put_ok)
                          THEN storage @@ (UploadPath :> content) ELSE storage
            /\ docs' = IF Persisted(put_ok, insert)
                       THEN docs @@ (UploadId :> NewRow(user, UploadPath, Len(content)))
                       ELSE docs
            /\ last' = Record("upload", req, UploadResponse(put_ok, insert, UploadId))
            /\ UNCHANGED <<issued, held, revoked>>
    /\ UNCHANGED now

----------------------------------------------------------------------------
(* POST /documents/{document_id}/share                                     *)

(* if not document.share_uuid or (document.share_expired_at and            *)
(*        document.share_expired_at < datetime.now(timezone.utc)):         *)
NeedsNewToken_IgnoresExpiry(doc, t) == IsNone(doc.share_uuid)

NeedsNewToken(doc, t) ==
    \/ IsNone(doc.share_uuid)
    \/ IsSome(doc.share_expired_at) /\ Val(doc.share_expired_at) < t

(* The fields share_document assigns before it looks at the code.          *)
ShareFields_KeepsPermanent(doc, stype, uuid, t) ==
    [doc EXCEPT !.share_uuid = uuid,
                !.share_type = Some(stype),
                !.share_expired_at =
                    IF doc.is_shared /\ IsNone(@) THEN None ELSE Some(t + Days(ShareDays)),
                !.is_shared = TRUE]

ShareFields(doc, stype, uuid, t) ==
    [doc EXCEPT !.share_uuid = uuid,
                !.share_type = Some(stype),
                !.share_expired_at = Some(t + Days(ShareDays)),
                !.is_shared = TRUE]

ShareData(doc) ==
    [ share_uuid |-> doc.share_uuid, share_type |-> doc.share_type,
      share_code |-> doc.share_code, share_expired_at |-> doc.share_expired_at ]

share_document(user, id, stype, scode) ==
    LET req == [caller |-> user, id |-> id, share_type |-> stype, share_code |-> scode]
        err(e) == Wrapped("Error sharing document", e)
    IN
    IF id \notin DOMAIN docs
    THEN Fails("share", req, err(APIException(404, "Document not found")))
         /\ UNCHANGED now
    ELSE IF docs[id].uploader_id # user
    THEN Fails("share", req, err(APIException(403, "Not authorized")))
         /\ UNCHANGED now
    ELSE
      LET doc == docs[id]
          fresh == NeedsNewToken(doc, now)
          uuid == IF fresh THEN Some(issued + 1) ELSE doc.share_uuid
      IN
      /\ fresh => issued < MaxTokens
      /\ \E t2 \in Later(now) :           \* the second reading of the clock
           /\ now' = t2
           /\ LET set == ShareFields(doc, stype, uuid, t2) IN
              IF stype = WITH_PASSWORD /\ Truthy(scode) /\ ~ValidShareCode(Val(scode))
              THEN Fails("share", req,
                         err(APIException(400, "Share code must be 4 digits")))
              ELSE \E gen \in GeneratedCodes :
                     LET code == IF stype # WITH_PASSWORD THEN None
                                 ELSE IF Truthy(scode) THEN scode
                                 ELSE Some(gen)
                         row == [set EXCEPT !.share_code = code]
                     IN
                     /\ docs' = [docs EXCEPT ![id] = row]
                     /\ issued' = IF fresh THEN issued + 1 ELSE issued
                     /\ held' = IF fresh THEN held \cup {Val(uuid)} ELSE held
                     /\ UNCHANGED revoked
                     /\ last' = Record("share", req,
                                       Success("Document shared successfully",
                                               ShareData(row)))
                     /\ UNCHANGED storage

----------------------------------------------------------------------------
(* PUT /documents/{document_id}/share                                      *)

(* Document.id == document_id, Document.uploader_id == current_user.id,    *)
(* Document.is_shared == True                                              *)
UpdateQuery_UnsharedToo(user, id) ==
    IF id \in DOMAIN docs /\ docs[id].uploader_id = user THEN Some(docs[id]) ELSE None

UpdateQuery_AnyCaller(user, id) ==
    IF id \in DOMAIN docs /\ docs[id].is_shared THEN Some(docs[id]) ELSE None

UpdateQuery(user, id) ==
    IF id \in DOMAIN docs /\ docs[id].uploader_id = user /\ docs[id].is_shared
    THEN Some(docs[id]) ELSE None

UpdateFields_KeepsExpiry(doc, stype, scode, days, t) ==
    [doc EXCEPT !.share_type = Some(stype),
                !.share_code = IF stype = WITH_PASSWORD THEN scode ELSE None,
                !.share_expired_at =
                    IF IsSome(days) THEN Some(t + Days(Val(days))) ELSE @]

UpdateFields(doc, stype, scode, days, t) ==
    [doc EXCEPT !.share_type = Some(stype),
                !.share_code = IF stype = WITH_PASSWORD THEN scode ELSE None,
                !.share_expired_at =
                    IF IsSome(days) THEN Some(t + Days(Val(days))) ELSE None]

update_share_code(user, id, stype, scode, days) ==
    LET req == [caller |-> user, id |-> id, share_type |-> stype,
                share_code |-> scode, expire_days |-> days]
        found == UpdateQuery(user, id)
    IN
    /\ IF IsNone(found)
       THEN Fails("update", req,
                  Wrapped("Error updating share code",
                          APIException(404, "Document not found or not shared")))
       ELSE LET row == UpdateFields(Val(found), stype, scode, days, now) IN
            /\ docs' = [docs EXCEPT ![id] = row]
            /\ last' = Record("update", req,
                              Success("Share code updated successfully", ShareData(row)))
            /\ UNCHANGED <<storage, issued, held, revoked>>
    /\ UNCHANGED now

----------------------------------------------------------------------------
(* DELETE /documents/{document_id}/share                                   *)
CancelQuery_SharedOnly(user, id) ==
    IF id \in DOMAIN docs /\ docs[id].uploader_id = user /\ docs[id].is_shared
    THEN Some(docs[id]) ELSE None

CancelQuery(user, id) ==
    IF id \in DOMAIN docs /\ docs[id].uploader_id = user
    THEN Some(docs[id]) ELSE None

CancelFields_KeepsToken(doc) ==
    [doc EXCEPT !.is_shared = FALSE, !.share_type = None,
                !.share_code = None, !.share_expired_at = None]

CancelFields(doc) ==
    [doc EXCEPT !.is_shared = FALSE, !.share_uuid = None, !.share_type = None,
                !.share_code = None, !.share_expired_at = None]

cancel_document_share(user, id) ==
    LET req == [caller |-> user, id |-> id]
        found == CancelQuery(user, id)
    IN
    /\ IF IsNone(found)
       THEN Fails("cancel", req,
                  Wrapped("Error cancelling share",
                          APIException(404, "Document not found")))
       ELSE /\ docs' = [docs EXCEPT ![id] = CancelFields(Val(found))]
            /\ last' = Record("cancel", req,
                              Success("Share cancelled successfully",
                                      [is_shared |-> FALSE]))
            /\ revoked' = IF IsSome(Val(found).share_uuid)
                          THEN revoked \cup {Val(Val(found).share_uuid)}
                          ELSE revoked
            /\ UNCHANGED <<storage, issued, held>>
    /\ UNCHANGED now

----------------------------------------------------------------------------
(* GET /documents/shared/{share_uuid}  and  /shared/{share_uuid}/check     *)

(* Document.share_uuid == share_uuid, Document.is_shared == True,          *)
(* or_(Document.share_expired_at == None, Document.share_expired_at > now) *)
Matches(doc, token, t) ==
    /\ doc.share_uuid = Some(token)
    /\ doc.is_shared
    /\ \/ IsNone(doc.share_expired_at)
       \/ Val(doc.share_expired_at) > t

(* result.scalar_one_or_none(); the model never holds two matching rows.   *)
Resolve(token, t) ==
    LET ids == { id \in DOMAIN docs : Matches(docs[id], token, t) } IN
    IF ids = {} THEN None ELSE Some(CHOOSE id \in ids : TRUE)

(* The password gate of access_shared_document: None when the caller may   *)
(* pass, else the exception raised.                                        *)
CodeCheck_NoCodePasses(doc, code) ==
    IF doc.share_type = Some(WITH_PASSWORD) /\ Truthy(code) /\ code # doc.share_code
    THEN Some(APIException(403, "Invalid share code"))
    ELSE None

CodeCheck(doc, code) ==
    IF doc.share_type = Some(WITH_PASSWORD)
    THEN IF ~Truthy(code)
         THEN Some(APIException(403, "Share code required"))
         ELSE IF code # doc.share_code
         THEN Some(APIException(403, "Invalid share code"))
         ELSE None
    ELSE None

(* The lifetime handed to get_presigned_url, the clock read at t.          *)
UrlExpires_NoFloor(doc, t) ==
    IF IsSome(doc.share_expired_at)
    THEN TruncSeconds(Val(doc.share_expired_at) - t)
    ELSE PermanentExpires

UrlExpires(doc, t) ==
    IF IsSome(doc.share_expired_at)
    THEN Max2(TruncSeconds(Val(doc.share_expired_at) - t), MinExpires)
    ELSE PermanentExpires

(* MinioService.get_presigned_url                                          *)
get_presigned_url(path, expires, ok) ==
    IF ok THEN [ok |-> TRUE, url |-> [path |-> path, expires |-> expires]]
    ELSE [ok |-> FALSE, error |-> APIException(500, "Error generating presigned URL")]

access_shared_document(token, code, gw_ok) ==
    LET req == [token |-> token, share_code |-> code, gateway_ok |-> gw_ok]
        err(e) == Wrapped("Error accessing shared document", e)
        found == Resolve(token, now)
    IN
    IF IsNone(found)
    THEN Fails("access", req, err(APIException(404, "Share not found or expired")))
         /\ UNCHANGED now
    ELSE
      LET id == Val(found)
          doc == docs[id]
          denied == CodeCheck(doc, code)
      IN
      IF IsSome(denied)
      THEN Fails("access", req, err(Val(denied))) /\ UNCHANGED now
      ELSE
        \E t2 \in Later(now) :              \* the second reading of the clock
          /\ IsNone(doc.share_expired_at) => t2 = now
          /\ now' = t2
          /\ LET got == get_presigned_url(doc.minio_path, UrlExpires(doc, t2), gw_ok) IN
             IF ~got.ok
             THEN Fails("access", req, err(got.error))
             ELSE /\ doc.download_count < MaxDownloads
                  /\ docs' = [docs EXCEPT ![id].download_count = @ + 1]
                  /\ last' = Record("access", req,
                                    Success("Document accessed successfully",
                                            [ preview_url |-> got.url,
                                              file_size |-> doc.file_size ]))
                  /\ UNCHANGED <<storage, issued, held, revoked>>

(* The conditions of check_share_type's own query.                         *)
CheckConditions_IgnoresExpiry(doc, token, t) ==
    /\ doc.share_uuid = Some(token)
    /\ doc.is_shared

CheckConditions(doc, token, t) ==
    /\ doc.share_uuid = Some(token)
    /\ doc.is_shared
    /\ \/ IsNone(doc.share_expired_at)
       \/ Val(doc.share_expired_at) > t

check_share_type(token) ==
    LET req == [token |-> token]
        ids == { id \in DOMAIN docs : CheckConditions(docs[id], token, now) }
        found == IF ids = {} THEN None ELSE Some(CHOOSE id \in ids : TRUE)
    IN
    /\ IF IsNone(found)
       THEN Fails("check", req,
                  Wrapped("Error checking share type",
                          APIException(404, "Share not found or expired")))
       ELSE Fails("check", req,
                  Success("Share type checked successfully",
                          [ requires_password |->
                                docs[Val(found)].share_type = Some(WITH_PASSWORD) ]))
    /\ UNCHANGED now

----------------------------------------------------------------------------
(* GET /documents/preview/{document_id}                                    *)
preview_document(user, id, gw_ok) ==
    LET req == [caller |-> user, id |-> id, gateway_ok |-> gw_ok]
        err(e) == Wrapped("Error generating preview URL", e)
    IN
    /\ IF id \notin DOMAIN docs
       THEN Fails("preview", req, err(APIException(404, "Document not found")))
       ELSE LET got == get_presigned_url(docs[id].minio_path, PreviewExpires, gw_ok) IN
            IF ~got.ok
            THEN Fails("preview", req, err(got.error))
            ELSE Fails("preview", req,
                       Success("Preview URL generated successfully",
                               [preview_url |-> got.url]))
    /\ UNCHANGED now

----------------------------------------------------------------------------
(* GET /documents/download/{document_id}                                   *)

DigitChar(d) ==
    CASE d = 0 -> "0" [] d = 1 -> "1" [] d = 2 -> "2" [] d = 3 -> "3"
      [] d = 4 -> "4" [] d = 5 -> "5" [] d = 6 -> "6" [] d = 7 -> "7"
      [] d = 8 -> "8" [] d = 9 -> "9"
DigitValue(c) == CHOOSE d \in 0 .. 9 : DigitChar(d) = c

(* str(n) / f"{n}" of an integer.                                          *)
RECURSIVE Str(_)
Str(n) ==
    IF n < 0 THEN <<"-">> \o Str(-n)
    ELSE IF n < 10 THEN <<DigitChar(n)>>
    ELSE Str(n \div 10) \o <<DigitChar(n % 10)>>

(* int(s) of a string of ASCII digits; None stands for ValueError.         *)
RECURSIVE DigitsValue(_)
DigitsValue(s) ==
    IF s = <<>> THEN 0
    ELSE 10 * DigitsValue(SubSeq(s, 1, Len(s) - 1)) + DigitValue(s[Len(s)])
ParseInt(s) ==
    IF Len(s) > 0 /\ \A i \in 1 .. Len(s) : s[i] \in AsciiDigits
    THEN Some(DigitsValue(s)) ELSE None

StartsWith(s, pat) == Len(s) >= Len(pat) /\ SubSeq(s, 1, Len(pat)) = pat

(* s.replace(pat, "")                                                      *)
RECURSIVE Remove(_, _)
Remove(s, pat) ==
    IF s = <<>> THEN <<>>
    ELSE IF StartsWith(s, pat) THEN Remove(SubSeq(s, Len(pat) + 1, Len(s)), pat)
    ELSE <<s[1]>> \o Remove(Tail(s), pat)

(* s.split(sep) for a one-character separator.                             *)
RECURSIVE Split(_, _)
Split(s, sep) ==
    IF \A i \in 1 .. Len(s) : s[i] # sep THEN <<s>>
    ELSE LET k == CHOOSE i \in 1 .. Len(s) :
                       s[i] = sep /\ \A j \in 1 .. i - 1 : s[j] # sep
         IN <<SubSeq(s, 1, k - 1)>> \o Split(SubSeq(s, k + 1, Len(s)), sep)

BytesEq == <<"b", "y", "t", "e", "s", "=">>

(* start, end = range_header.replace("bytes=", "").split("-")              *)
(* start = int(start); end = int(end) if end else file_size - 1            *)
(* None stands for the ValueError of a failed unpacking or int().          *)
ParseRange(header, file_size) ==
    LET parts == Split(Remove(header, BytesEq), "-") IN
    IF Len(parts) # 2 THEN None
    ELSE LET start == ParseInt(parts[1])
             end == IF Len(parts[2]) > 0 THEN ParseInt(parts[2]) ELSE Some(file_size - 1)
         IN IF IsNone(start) \/ IsNone(end) THEN None
            ELSE Some([start |-> Val(start), end |-> Val(end)])

(* headers["Content-Range"] = f"bytes {start}-{end}/{file_size}"           *)
ContentRange(start, end, file_size) ==
    <<"b", "y", "t", "e", "s", " ">> \o Str(start) \o <<"-">> \o Str(end)
        \o <<"/">> \o Str(file_size)

(* file_response.read(n) at position pos of the stored object.             *)
Read(content, pos, n) == SubSeq(content, pos + 1, Min2(pos + n, Len(content)))

(* while True: chunk = file_response.read(chunk_size); if not chunk: break *)
RECURSIVE Chunks(_, _, _)
Chunks(content, pos, chunk_size) ==
    LET chunk == Read(content, pos, chunk_size) IN
    IF chunk = <<>> THEN <<>>
    ELSE <<chunk>> \o Chunks(content, pos + Len(chunk), chunk_size)

RECURSIVE Concat(_)
Concat(chunks) == IF chunks = <<>> THEN <<>> ELSE Head(chunks) \o Concat(Tail(chunks))

(* The bytes the generator iterfile(start) yields, one after the other.    *)
iterfile(content, start, chunk_size) ==
    LET skipped == IF start > 0 THEN Len(Read(content, 0, start)) ELSE 0 IN
    Concat(Chunks(content, skipped, chunk_size))

(* if not document.is_public and document.uploader_id != current_user.id:  *)
(*     raise 403                                                           *)
MayDownload_Anyone(doc, user) == TRUE

MayDownload(doc, user) == doc.is_public \/ doc.uploader_id = user

(* DocumentService.increment_download_count: the download counter of the   *)
(* row goes up by one (spec.md: "incremented on each successful fetch").   *)
increment_download_count(rows, id) ==
    [rows EXCEPT ![id].download_count = @ + 1]

(* The public flag of a document is set outside the handlers of            *)
(* documents.py (spec.md lists it among the fields of Document).           *)
set_public(id, flag) ==
    /\ id \in DOMAIN docs
    /\ docs[id].is_public # flag
    /\ docs' = [docs EXCEPT ![id].is_public = flag]
    /\ UNCHANGED <<storage, now, issued, held, revoked, last>>

download_document(user, id, range_header, get_ok) ==
    LET req == [caller |-> user, id |-> id, range |-> range_header,
                gateway_ok |-> get_ok]
        err(e) == Wrapped("Error retrieving file", e)
    IN
    /\ IF id \notin DOMAIN docs
       THEN Fails("download", req, APIException(404, "Document not found"))
       ELSE LET doc == docs[id]
                content == storage[doc.minio_path]
                file_size == doc.file_size
                ranged == Truthy(range_header)
                parsed == IF ranged THEN ParseRange(Val(range_header), file_size)
                          ELSE None
            IN
            IF ~MayDownload(doc, user)
            THEN Fails("download", req,
                       APIException(403, "Not authorized to download this document"))
            ELSE IF ~get_ok
            THEN Fails("download", req, err(APIException(500, "Error retrieving file")))
            ELSE IF ranged /\ IsNone(parsed)
            THEN Fails("download", req, err(APIException(500, "ValueError")))
            ELSE
              LET resp ==
                    IF ranged
                    THEN [ status |-> 206,
                           content_range |->
                               Some(ContentRange(Val(parsed).start, Val(parsed).end,
                                                 file_size)),
                           content_length |-> Str(Val(parsed).end - Val(parsed).start + 1),
                           body |-> iterfile(content, Val(parsed).start, ChunkSize) ]
                    ELSE [ status |-> 200,
                           content_range |-> None,
                           content_length |-> Str(file_size),
                           body |-> iterfile(content, 0, ChunkSize) ]
              IN
              /\ doc.download_count < MaxDownloads
              /\ docs' = increment_download_count(docs, id)
              /\ last' = Record("download", req, resp)
              /\ UNCHANGED <<storage, issued, held, revoked>>
    /\ UNCHANGED now

----------------------------------------------------------------------------
(* GET /documents/shared                                                   *)

(* Document.is_shared == True, Document.share_expired_at > now.  In SQL a  *)
(* NULL share_expired_at compares as unknown, and the row is left out.     *)
ListedBy(doc, t) ==
    /\ doc.is_shared
    /\ IsSome(doc.share_expired_at)
    /\ Val(doc.share_expired_at) > t

SharedEntry(id, doc) ==
    [ id |-> id, share_uuid |-> doc.share_uuid, share_type |-> doc.share_type,
      share_code |-> doc.share_code, share_expired_at |-> doc.share_expired_at,
      download_count |-> doc.download_count ]

list_shared_documents ==
    /\ Fails("list", << >>,
             Success("Shared documents retrieved successfully",
                     { SharedEntry(id, docs[id]) :
                         id \in { i \in DOMAIN docs : ListedBy(docs[i], now) } }))
    /\ UNCHANGED now

----------------------------------------------------------------------------
(* Time passes between requests.                                           *)
Tick ==
    /\ Ready
    /\ \E t \in Instants : t > now /\ now' = t
    /\ UNCHANGED <<docs, storage, issued, held, revoked, last, sessions>>

(* The response has reached the caller and the request is over.            *)
Respond ==
    /\ ~Ready
    /\ last' = Idle
    /\ UNCHANGED <<docs, storage, now, issued, held, revoked, sessions>>

----------------------------------------------------------------------------
ShareFile == <<10, 11, 12>>

Upload ==
    /\ Ready
    /\ \E u \in Users, ok \in BOOLEAN : upload_document(u, ShareFile, ok, "ok")
    /\ UNCHANGED sessions

Share ==
    /\ Ready
    /\ \E u \in Users, id \in ReqDocIds, st \in ShareTypes, c \in SuppliedCodes :
       share_document(u, id, st, c)
    /\ UNCHANGED sessions

Update ==
    /\ Ready
    /\ \E u \in Users, id \in ReqDocIds, st \in ShareTypes, c \in SuppliedCodes,
       d \in ExpireDays :
       update_share_code(u, id, st, c, d)
    /\ UNCHANGED sessions

Cancel ==
    /\ Ready
    /\ \E u \in Users, id \in ReqDocIds : cancel_document_share(u, id)
    /\ UNCHANGED sessions

Access ==
    /\ Ready
    /\ \E tok \in ReqTokens, c \in SuppliedCodes, ok \in BOOLEAN :
       access_shared_document(tok, c, ok)
    /\ UNCHANGED sessions

Check ==
    /\ Ready
    /\ \E tok \in ReqTokens : check_share_type(tok)
    /\ UNCHANGED sessions

ListShared == Ready /\ list_shared_documents /\ UNCHANGED sessions

Preview ==
    /\ Ready
    /\ \E u \in Users, id \in ReqDocIds, ok \in BOOLEAN : preview_document(u, id, ok)
    /\ UNCHANGED sessions

Next ==
    Upload \/ Share \/ Update \/ Cancel \/ Access \/ Check \/ ListShared \/ Preview
      \/ Tick \/ Respond

Spec == Init /\ [][Next]_vars

(* Uploads and downloads alone: files of several sizes, Range headers.     *)
Files == {<<10, 11, 12, 13>>, <<20, 21>>, ShareFile}

RangeHeader(s, e) == BytesEq \o Str(s) \o <<"-">> \o Str(e)
RangeHeaders ==
    {None, Some(<<>>)}
      \cup { Some(RangeHeader(s, e)) : s \in 0 .. 3, e \in {0, 1, 3, 12} }
      \cup { Some(BytesEq \o Str(s) \o <<"-">>) : s \in {0, 2, 10} }
      \cup { Some(BytesEq \o <<"-", "2">>), Some(BytesEq \o <<"a", "-", "1">>),
             Some(BytesEq \o <<"0", "-", "1", "-", "2">>) }

UploadFile ==
    /\ Ready
    /\ \E u \in Users, f \in Files, ok \in BOOLEAN, ins \in InsertOutcomes :
       upload_document(u, f, ok, ins)
    /\ UNCHANGED sessions

Download ==
    /\ Ready
    /\ \E u \in Users, id \in ReqDocIds, r \in RangeHeaders, ok \in BOOLEAN :
       download_document(u, id, r, ok)
    /\ UNCHANGED sessions

SetPublic ==
    /\ Ready
    /\ \E id \in DocIds, flag \in BOOLEAN : set_public(id, flag)
    /\ UNCHANGED sessions

NextDownload == UploadFile \/ Download \/ Preview \/ SetPublic \/ Respond

SpecDownload == Init /\ [][NextDownload]_vars

----------------------------------------------------------------------------
(* Requests on the same row served concurrently.  A handler awaits twice:  *)
(* the SELECT that loads the row into its session, and db.commit(), which  *)
(* flushes the attributes it assigned.  Everything between runs without    *)
(* interruption, on the row as loaded.                                     *)
Quiet == \A p \in Procs : sessions[p] = NoSession

ConcCodes == {None, Some(C1234)}
ConcRequests ==
    { [op |-> "access", token |-> tok, share_code |-> c] :
        tok \in Tokens, c \in ConcCodes }
      \cup { [op |-> "share", caller |-> u, id |-> id, share_type |-> PUBLIC,
              share_code |-> None] : u \in Users, id \in DocIds }
      \cup { [op |-> "share", caller |-> u, id |-> id, share_type |-> WITH_PASSWORD,
              share_code |-> c] : u \in Users, id \in DocIds, c \in ConcCodes }
      \cup { [op |-> "update", caller |-> u, id |-> id, share_type |-> PUBLIC,
              share_code |-> None, expire_days |-> Some(1)] :
                u \in Users, id \in DocIds }
      \cup { [op |-> "update", caller |-> u, id |-> id, share_type |-> WITH_PASSWORD,
              share_code |-> Some(C0042), expire_days |-> Some(1)] :
                u \in Users, id \in DocIds }
      \cup { [op |-> "cancel", caller |-> u, id |-> id] : u \in Users, id \in DocIds }

(* The row a handler's query gives it, by id.                              *)
Found(r) ==
    CASE r.op = "access" -> Resolve(r.token, now)
      [] r.op = "share" ->
            IF r.id \in DOMAIN docs /\ docs[r.id].uploader_id = r.caller
            THEN Some(r.id) ELSE None
      [] r.op = "update" ->
            IF IsSome(UpdateQuery(r.caller, r.id)) THEN Some(r.id) ELSE None
      [] r.op = "cancel" ->
            IF IsSome(CancelQuery(r.caller, r.id)) THEN Some(r.id) ELSE None

(* The row after the handler's assignments, made on the row it loaded.     *)
Assigned(r, row, t, gen) ==
    CASE r.op = "access" -> [row EXCEPT !.download_count = @ + 1]
      [] r.op = "share" ->
            LET uuid == IF NeedsNewToken(row, t) THEN Some(issued + 1)
                        ELSE row.share_uuid
                code == IF r.share_type # WITH_PASSWORD THEN None
                        ELSE IF Truthy(r.share_code) THEN r.share_code
                        ELSE Some(gen)
            IN [ShareFields(row, r.share_type, uuid, t) EXCEPT !.share_code = code]
      [] r.op = "update" ->
            UpdateFields(row, r.share_type, r.share_code, r.expire_days, t)
      [] r.op = "cancel" -> CancelFields(row)

(* db.commit(): the session's unit of work issues UPDATE documents SET ... *)
(* WHERE id = ..., naming the columns whose assigned value differs from    *)
(* the value loaded; the other columns keep what the table holds.          *)
Flush(loaded, assigned, stored) ==
    [f \in DOMAIN stored |->
        IF assigned[f] # loaded[f] THEN assigned[f] ELSE stored[f]]

select(p, r) ==
    LET found == Found(r) IN
    /\ sessions[p] = NoSession
    /\ sessions' = [sessions EXCEPT ![p] =
            IF IsNone(found)
            THEN [pc |-> "done", req |-> r, ok |-> FALSE]
            ELSE [pc |-> "loaded", req |-> r, id |-> Val(found),
                  row |-> docs[Val(found)]]]
    /\ UNCHANGED <<docs, storage, now, issued, held, revoked, last>>

commit(p) ==
    /\ sessions[p].pc = "loaded"
    /\ LET s == sessions[p]
           r == s.req
       IN
       IF r.op = "access" /\ IsSome(CodeCheck(s.row, r.share_code))
       THEN /\ sessions' = [sessions EXCEPT ![p] =
                                [pc |-> "done", req |-> r, ok |-> FALSE]]
            /\ UNCHANGED <<docs, issued, held, revoked>>
       ELSE \E gen \in GeneratedCodes :
            LET fresh == r.op = "share" /\ NeedsNewToken(s.row, now)
                assigned == Assigned(r, s.row, now, gen)
                stored == Flush(s.row, assigned, docs[s.id])
            IN
            /\ fresh => issued < MaxTokens
            /\ docs' = [docs EXCEPT ![s.id] = stored]
            /\ issued' = IF fresh THEN issued + 1 ELSE issued
            /\ held' = IF fresh THEN held \cup {issued + 1} ELSE held
            /\ revoked' = IF r.op = "cancel" /\ IsSome(s.row.share_uuid)
                          THEN revoked \cup {Val(s.row.share_uuid)} ELSE revoked
            /\ sessions' = [sessions EXCEPT ![p] =
                                [pc |-> "done", req |-> r, ok |-> TRUE, id |-> s.id,
                                 assigned |-> assigned, stored |-> stored]]
    /\ UNCHANGED <<storage, now, last>>

SetUpUpload == Quiet /\ Upload
SetUpShare == Quiet /\ Share
SetUpTick == Quiet /\ Tick
Select == Ready /\ \E p \in Procs, r \in ConcRequests : select(p, r)
Commit == \E p \in Procs : commit(p)

NextConcurrent == SetUpUpload \/ SetUpShare \/ SetUpTick \/ Respond \/ Select \/ Commit

SpecConcurrent == Init /\ [][NextConcurrent]_vars

----------------------------------------------------------------------------
(* Properties.  `last` is the request just served: last.pre is the store   *)
(* it found, docs the store it left.                                       *)
Served(op) == last.op = op
Ok == last.resp.status = 200
PreRow == last.pre[last.req.id]
PostRow == docs[last.req.id]
OnExisting == last.req.id \in DOMAIN last.pre
ByOwner == OnExisting /\ PreRow.uploader_id = last.req.caller

(* The rows of the store `d` a token resolves to at time t.                *)
Resolvable(d, token, t) ==
    { id \in DOMAIN d :
        /\ d[id].share_uuid = Some(token)
        /\ d[id].is_shared
        /\ (IsNone(d[id].share_expired_at) \/ Val(d[id].share_expired_at) > t) }
Accessed == CHOOSE id \in Resolvable(last.pre, last.req.token, last.at) : TRUE
Resolved == Resolvable(last.pre, last.req.token, last.at) # {}

(* C1: in every reachable state, for every document, the stored share code *)
(* is non-null if and only if the stored share mode is password-protected. *)
C1_CodeIffPasswordMode ==
    \A id \in DOMAIN docs :
        IsSome(docs[id].share_code) <=> docs[id].share_type = Some(WITH_PASSWORD)

(* C2: a successful createOrRefreshShare by the owner issues a token that  *)
(* differs from the one before and from every token held earlier when the  *)
(* document had no token or its expiry was in the past, and keeps the      *)
(* token when the share was still valid (expiry in the future or null).    *)
C2_TokenRefreshedIffAbsentOrExpired ==
    (Served("share") /\ Ok) =>
        LET pre == PreRow
            post == PostRow
        IN
        /\ (IsNone(pre.share_uuid)
              \/ (IsSome(pre.share_expired_at) /\ Val(pre.share_expired_at) < last.at))
           => /\ IsSome(post.share_uuid)
              /\ post.share_uuid # pre.share_uuid
              /\ Val(post.share_uuid) \notin last.held
        /\ (IsSome(pre.share_uuid)
              /\ (IsNone(pre.share_expired_at) \/ Val(pre.share_expired_at) > last.at))
           => post.share_uuid = pre.share_uuid

C2_Witness ==
    /\ Served("share") /\ Ok
    /\ IsSome(PreRow.share_uuid)
    /\ IsSome(PreRow.share_expired_at)
    /\ Val(PreRow.share_expired_at) < last.at
    /\ PostRow.share_uuid # PreRow.share_uuid

(* C3: a successful updateShare without expireDays leaves the expiry null, *)
(* whatever it was, and the share then resolves at every later time until  *)
(* a share, update or cancel succeeds; with expireDays = d the expiry is   *)
(* the time of the call plus d days.                                       *)
C3_AfterUpdate ==
    (Served("update") /\ Ok) =>
        IF IsNone(last.req.expire_days)
        THEN /\ IsNone(PostRow.share_expired_at)
             /\ \A t \in Instants :
                   t >= now =>
                     last.req.id \in Resolvable(docs, Val(PostRow.share_uuid), t)
        ELSE PostRow.share_expired_at =
                 Some(last.at + Val(last.req.expire_days) * 86400 * TicksPerSecond)

C3_PermanentStays ==
    \A id \in DOMAIN docs :
        ( /\ docs[id].is_shared
          /\ IsNone(docs[id].share_expired_at)
          /\ ~(last'.op \in {"share", "update", "cancel"} /\ last'.resp.status = 200) )
        => /\ docs'[id].is_shared
           /\ IsNone(docs'[id].share_expired_at)
           /\ docs'[id].share_uuid = docs[id].share_uuid

C3_UpdateWithoutDaysIsPermanent == []C3_AfterUpdate /\ [][C3_PermanentStays]_vars

C3_Witness ==
    /\ Served("update") /\ Ok
    /\ IsNone(last.req.expire_days)
    /\ IsSome(PreRow.share_expired_at)
    /\ Val(PreRow.share_expired_at) < last.at
    /\ IsNone(PostRow.share_expired_at)

(* C4: on a resolvable password-protected share, accessShare with a code   *)
(* that differs from the stored one fails with InvalidCode (403) and       *)
(* leaves downloadCount unchanged; with the stored code it succeeds,       *)
(* returns a presigned URL and raises downloadCount by exactly one.        *)
C4_CodeGate ==
    ( /\ Served("access")
      /\ Resolved
      /\ last.pre[Accessed].share_type = Some(WITH_PASSWORD)
      /\ Truthy(last.req.share_code) )
    => IF last.req.share_code # last.pre[Accessed].share_code
       THEN /\ last.resp.status = 403
            /\ last.resp.message = "Invalid share code"
            /\ docs = last.pre
       ELSE last.req.gateway_ok =>
            /\ Ok
            /\ last.resp.data.preview_url.path = last.pre[Accessed].minio_path
            /\ docs[Accessed].download_count
                   = last.pre[Accessed].download_count + 1

(* C5: accessShare and checkShareKind answer a token that does not resolve *)
(* (expired, cancelled or never issued) with the one uniform               *)
(* NotFoundOrExpired / 404 response.                                       *)
C5_UnresolvableIsUniform404 ==
    ((Served("access") \/ Served("check")) /\ ~Resolved)
    => /\ last.resp.status = 404
       /\ last.resp.message = "Share not found or expired"

(* C6: the lifetime handed to the storage gateway is max(whole seconds     *)
(* until shareExpiry, 600) when the expiry is set and 86400 when it is     *)
(* null, and never below 600.                                              *)
C6_UrlLifetime ==
    (Served("access") /\ Ok) =>
        LET exp == last.pre[Accessed].share_expired_at
            e == last.resp.data.preview_url.expires
        IN
        /\ e >= 600
        /\ IsNone(exp) => e = 86400
        /\ IsSome(exp) =>
             LET rem == Val(exp) - now IN    \* now: the clock when it was computed
             IF rem < 600 * TicksPerSecond
             THEN e = 600
             ELSE e * TicksPerSecond <= rem /\ rem < (e + 1) * TicksPerSecond

C6_Witness ==
    /\ Served("access") /\ Ok
    /\ IsSome(last.pre[Accessed].share_expired_at)
    /\ Val(last.pre[Accessed].share_expired_at) - now = 50 * TicksPerSecond
    /\ last.resp.data.preview_url.expires = 600

(* C7: a download with Range: bytes=s-e on a file of n bytes,              *)
(* 0 <= s <= e < n, answers 206 with Content-Range 'bytes s-e/n',          *)
(* Content-Length e-s+1 and a body of exactly the bytes at offsets s..e;   *)
(* without a Range header it answers 200 with all n bytes.                 *)
C7_RangeBody ==
    (Served("download") /\ last.resp.status \in {200, 206}) =>
        LET content == storage[PreRow.minio_path]
            n == Len(content)
        IN
        /\ IsNone(last.req.range) =>
              last.resp.status = 200 /\ last.resp.body = content
        /\ \A s \in 0 .. n - 1 : \A e \in s .. n - 1 :
              last.req.range = Some(RangeHeader(s, e)) =>
                /\ last.resp.status = 206
                /\ last.resp.content_range
                     = Some(<<"b", "y", "t", "e", "s", " ">> \o Str(s) \o <<"-">>
                              \o Str(e) \o <<"/">> \o Str(n))
                /\ last.resp.content_length = Str(e - s + 1)
                /\ last.resp.body = [i \in 1 .. e - s + 1 |-> content[s + i]]

(* C8: every failure of a share operation carries the status of its kind:  *)
(* missing document 404, non-owner createOrRefreshShare 403, malformed     *)
(* supplied code 400, missing or wrong code on accessShare 403,            *)
(* unresolvable token 404.                                                 *)
C8_FailureStatusMatchesKind ==
    /\ (last.op \in {"share", "update", "cancel"} /\ ~OnExisting)
       => last.resp.status = 404
    /\ (Served("share") /\ OnExisting /\ ~ByOwner)
       => last.resp.status = 403
    /\ ( /\ Served("share") /\ ByOwner
         /\ last.req.share_type = WITH_PASSWORD
         /\ Truthy(last.req.share_code)
         /\ \/ Len(Val(last.req.share_code)) # 4
            \/ \E i \in 1 .. Len(Val(last.req.share_code)) :
                  Val(last.req.share_code)[i] \notin AsciiDigits \cup OtherDigits )
       => last.resp.status = 400
    /\ ( /\ Served("access") /\ Resolved
         /\ last.pre[Accessed].share_type = Some(WITH_PASSWORD)
         /\ last.req.share_code # last.pre[Accessed].share_code )
       => last.resp.status = 403
    /\ ((Served("access") \/ Served("check")) /\ ~Resolved)
       => last.resp.status = 404

(* C9: cancelShare by the owner succeeds, clears token, mode, code and     *)
(* expiry and sets isShared false whatever the share state was, touching   *)
(* nothing else; on a document already in that state (cancelled before or  *)
(* never shared) it succeeds again and leaves the store as it was.         *)
C9_CancelClearsAndIsIdempotent ==
    (Served("cancel") /\ ByOwner) =>
        /\ Ok
        /\ IsNone(PostRow.share_uuid)
        /\ IsNone(PostRow.share_type)
        /\ IsNone(PostRow.share_code)
        /\ IsNone(PostRow.share_expired_at)
        /\ PostRow.is_shared = FALSE
        /\ PostRow.download_count = PreRow.download_count
        /\ PostRow.minio_path = PreRow.minio_path
        /\ PostRow.uploader_id = PreRow.uploader_id
        /\ (~PreRow.is_shared /\ IsNone(PreRow.share_uuid)) => docs = last.pre

C9_Witness ==
    /\ Served("cancel") /\ ByOwner /\ Ok
    /\ ~PreRow.is_shared
    /\ last.held # {}
    /\ docs = last.pre

(* C10: createOrRefreshShare, updateShare and cancelShare by an identity   *)
(* other than the uploader fail and leave every stored field unchanged.    *)
C10_NonOwnerChangesNothing ==
    (last.op \in {"share", "update", "cancel"} /\ OnExisting /\ ~ByOwner)
    => /\ last.resp.status # 200
       /\ docs = last.pre

C10_Witness ==
    /\ Served("update") /\ OnExisting /\ ~ByOwner
    /\ PreRow.is_shared
    /\ last.resp.status # 200


(* C11: GET /documents/shared lists a document if and only if its share    *)
(* satisfies the resolve predicate of accessShare: isShared, and the       *)
(* expiry null or later than now.                                          *)
C11_ListedIffActive ==
    Served("list") =>
        \A id \in DOMAIN docs :
            (\E entry \in last.resp.data : entry.id = id)
            <=> /\ docs[id].is_shared
                /\ \/ IsNone(docs[id].share_expired_at)
                   \/ Val(docs[id].share_expired_at) > last.at


(* C12: a document record is persisted only after its storage write has    *)
(* succeeded: every record's storage path holds an object, and an upload   *)
(* whose storage write or record insert fails leaves the record store as   *)
(* it was.                                                                 *)
C12_RecordOnlyAfterStorage ==
    /\ \A id \in DOMAIN docs : docs[id].minio_path \in DOMAIN storage
    /\ (Served("upload") /\ (~last.req.put_ok \/ last.req.insert # "ok"))
       => /\ last.resp.status # 200
          /\ docs = last.pre
    /\ (Served("upload") /\ docs # last.pre)
       => /\ last.req.put_ok
          /\ \A id \in DOMAIN docs \ DOMAIN last.pre :
                storage[docs[id].minio_path] = last.req.content

C12_Witness ==
    /\ Served("upload")
    /\ last.req.caller \in Admins
    /\ ~last.req.put_ok
    /\ last.resp.status = 500
    /\ Orphans > 0
    /\ docs = last.pre


(* C13: a download by a caller who is not the uploader of a document whose *)
(* public flag is false fails with 403, carries no body and leaves the     *)
(* download counter as it was; a download by the uploader, or of a public  *)
(* document, is never refused, and once the object has been fetched and    *)
(* the Range header (if any) read, it succeeds and raises the counter by   *)
(* exactly one.                                                            *)
C13_Authorised ==
    last.pre[last.req.id].is_public \/ last.pre[last.req.id].uploader_id = last.req.caller

C13_Readable ==
    /\ last.req.gateway_ok
    /\ Truthy(last.req.range)
       => IsSome(ParseRange(Val(last.req.range), last.pre[last.req.id].file_size))

C13_DownloadAuthorisation ==
    (Served("download") /\ OnExisting) =>
        /\ ~C13_Authorised
           => /\ last.resp.status = 403
              /\ "body" \notin DOMAIN last.resp
              /\ docs = last.pre
        /\ C13_Authorised
           => /\ last.resp.status \in {200, 206, 500}
              /\ last.resp.status = 500 <=> ~C13_Readable
              /\ last.resp.status = 500 => docs = last.pre
              /\ last.resp.status \in {200, 206}
                 => /\ "body" \in DOMAIN last.resp
                    /\ docs = [last.pre EXCEPT ![last.req.id].download_count =
                                   last.pre[last.req.id].download_count + 1]

C13_Witness ==
    /\ Served("download")
    /\ OnExisting
    /\ last.pre[last.req.id].is_public
    /\ last.pre[last.req.id].uploader_id # last.req.caller
    /\ last.resp.status = 206
    /\ docs[last.req.id].download_count = 2


(* C14: the stored share code of a password-protected document is a string *)
(* of exactly 4 ASCII digits; createOrRefreshShare rejects a supplied code *)
(* that is not exactly 4 ASCII digits and leaves the stored share state    *)
(* unchanged, and updateShare sets the code under the same rule.  (Which   *)
(* status the rejection carries is the subject of C8.)                     *)
C14_FourAsciiDigits(s) ==
    /\ Len(s) = 4
    /\ \A i \in 1 .. Len(s) : s[i] \in AsciiDigits

C14_StoredCodeIsFourDigits ==
    /\ \A id \in DOMAIN docs :
          (docs[id].share_type = Some(WITH_PASSWORD) /\ IsSome(docs[id].share_code))
          => C14_FourAsciiDigits(Val(docs[id].share_code))
    /\ ( /\ last.op \in {"share", "update"}
         /\ ByOwner
         /\ last.req.share_type = WITH_PASSWORD
         /\ Truthy(last.req.share_code)
         /\ ~C14_FourAsciiDigits(Val(last.req.share_code)) )
       => /\ last.resp.status # 200
          /\ docs = last.pre


(* C15: updateShare succeeds only on a document that is currently shared   *)
(* and owned by the caller, and it never changes the share token, isShared *)
(* or downloadCount, also when the share had expired before the update     *)
(* made it valid again.                                                    *)
C15_UpdateKeepsTokenFlagAndCounter ==
    Served("update") =>
        /\ Ok => (ByOwner /\ PreRow.is_shared)
        /\ DOMAIN docs = DOMAIN last.pre
        /\ \A id \in DOMAIN docs :
              /\ docs[id].share_uuid = last.pre[id].share_uuid
              /\ docs[id].is_shared = last.pre[id].is_shared
              /\ docs[id].download_count = last.pre[id].download_count
        /\ ~Ok => docs = last.pre

C15_Witness ==
    /\ Served("update")
    /\ Ok
    /\ IsSome(PreRow.share_expired_at)
    /\ Val(PreRow.share_expired_at) < last.at
    /\ IsSome(PostRow.share_expired_at)
    /\ Val(PostRow.share_expired_at) > now
    /\ IsSome(PostRow.share_uuid)
    /\ PostRow.share_uuid = PreRow.share_uuid
    /\ PreRow.download_count > 0


(* C16: every successful createOrRefreshShare sets isShared to true, the   *)
(* share mode to the requested mode and the expiry to exactly the time of  *)
(* the write plus 7 days, whatever the expiry was before; a share that     *)
(* updateShare had made permanent (expiry null) gets a 7-day expiry again  *)
(* and keeps its token.                                                    *)
C16_ShareSetsSevenDays ==
    (Served("share") /\ Ok) =>
        /\ PostRow.is_shared
        /\ PostRow.share_type = Some(last.req.share_type)
        /\ PostRow.share_expired_at = Some(now + Days(ShareDays))
        /\ last.at <= now
        /\ (PreRow.is_shared /\ IsSome(PreRow.share_uuid) /\ IsNone(PreRow.share_expired_at))
           => PostRow.share_uuid = PreRow.share_uuid

C16_Witness ==
    /\ Served("share") /\ Ok
    /\ PreRow.is_shared
    /\ IsSome(PreRow.share_uuid)
    /\ IsNone(PreRow.share_expired_at)
    /\ last.at > 0
    /\ PostRow.share_uuid = PreRow.share_uuid
    /\ PostRow.share_expired_at = Some(now + Days(ShareDays))


(* C17: an accessShare call that fails (token unresolvable, no code given  *)
(* for a password-protected share, wrong code, or the storage gateway      *)
(* failing to mint the URL) returns no URL and leaves downloadCount and    *)
(* every share field unchanged; each of these cases does fail, and the     *)
(* counter goes up, by one, only when the URL has been obtained.           *)
C17_FailedAccessChangesNothing ==
    Served("access") =>
        /\ ~Ok => /\ docs = last.pre
                  /\ "data" \notin DOMAIN last.resp
        /\ ~Resolved => ~Ok
        /\ ~last.req.gateway_ok => ~Ok
        /\ (Resolved /\ last.pre[Accessed].share_type = Some(WITH_PASSWORD))
           => /\ ~Truthy(last.req.share_code)
                 => (~Ok /\ last.resp.details = Some("Share code required"))
              /\ (Truthy(last.req.share_code)
                    /\ last.req.share_code # last.pre[Accessed].share_code)
                 => (~Ok /\ last.resp.details = Some("Invalid share code"))
        /\ docs # last.pre
           => /\ Ok
              /\ last.req.gateway_ok
              /\ "preview_url" \in DOMAIN last.resp.data
              /\ docs = [last.pre EXCEPT ![Accessed].download_count =
                             last.pre[Accessed].download_count + 1]

C17_Witness ==
    /\ Served("access")
    /\ ~Ok
    /\ Resolved
    /\ last.pre[Accessed].share_type = Some(WITH_PASSWORD)
    /\ last.req.share_code = last.pre[Accessed].share_code
    /\ ~last.req.gateway_ok
    /\ last.pre[Accessed].download_count > 0
    /\ docs = last.pre


(* C18: the download counter counts every successful fetch: when N         *)
(* accessShare calls on the same document have all returned success, in    *)
(* any interleaving of their read and commit steps, downloadCount is       *)
(* exactly N greater than before (before: 0, no fetch having been served). *)
C18_Fetched(id) ==
    { p \in Procs : /\ sessions[p].pc = "done"
                    /\ sessions[p].ok
                    /\ sessions[p].req.op = "access"
                    /\ sessions[p].id = id }

C18_CounterCountsEveryFetch ==
    (\A p \in Procs : sessions[p].pc # "loaded")
    => \A id \in DOMAIN docs : docs[id].download_count = Cardinality(C18_Fetched(id))

(* C19: when createOrRefreshShare, updateShare and cancelShare requests on *)
(* the same document run concurrently, the committed share state (token,   *)
(* mode, code, expiry, isShared) is the state written by the request that  *)
(* committed last, and the share code is non-null iff the mode is          *)
(* password-protected after every interleaving.                            *)
C19_ShareState(row) ==
    [ share_uuid |-> row.share_uuid, share_type |-> row.share_type,
      share_code |-> row.share_code, share_expired_at |-> row.share_expired_at,
      is_shared |-> row.is_shared ]

C19_LastCommitWins ==
    /\ \A p \in Procs :
          ( /\ sessions[p].pc = "done"
            /\ sessions[p].ok
            /\ sessions[p].req.op \in {"share", "update", "cancel"} )
          => C19_ShareState(sessions[p].stored) = C19_ShareState(sessions[p].assigned)
    /\ \A id \in DOMAIN docs :
          IsSome(docs[id].share_code) <=> docs[id].share_type = Some(WITH_PASSWORD)


(* C20: checkShareKind resolves a token with the same predicate as         *)
(* accessShare: it succeeds exactly when the token resolves, which is also *)
(* exactly when accessShare with the correct code (and a working gateway)  *)
(* succeeds; it returns requiresPassword = true iff the stored mode is     *)
(* password-protected, never returns the share code, and leaves every      *)
(* document, downloadCount included, unchanged.                            *)
C20_CorrectCode ==
    Resolved =>
        (last.pre[Accessed].share_type = Some(WITH_PASSWORD)
            => /\ Truthy(last.req.share_code)
               /\ last.req.share_code = last.pre[Accessed].share_code)

C20_CheckResolvesLikeAccess ==
    /\ Served("check")
       => /\ docs = last.pre
          /\ Ok <=> Resolved
          /\ ~Ok => "data" \notin DOMAIN last.resp
          /\ Ok => /\ last.resp.data.requires_password
                       = (last.pre[Accessed].share_type = Some(WITH_PASSWORD))
                   /\ "share_code" \notin DOMAIN last.resp.data
    /\ (Served("access") /\ last.req.gateway_ok /\ C20_CorrectCode)
       => (Ok <=> Resolved)

C20_Witness ==
    /\ Served("check")
    /\ Ok
    /\ last.resp.data.requires_password
    /\ IsSome(last.pre[Accessed].share_code)
    /\ IsSome(last.pre[Accessed].share_expired_at)
    /\ last.pre[Accessed].download_count > 0
    /\ docs = last.pre


(* C21: in every state reached by share, update and cancel requests from a *)
(* freshly uploaded document, isShared is true if and only if the share    *)
(* token is non-null, and isShared false implies that mode, code and       *)
(* expiry are all null.                                                    *)
C21_SharedIffToken ==
    \A id \in DOMAIN docs :
        /\ docs[id].is_shared <=> IsSome(docs[id].share_uuid)
        /\ ~docs[id].is_shared
           => /\ IsNone(docs[id].share_type)
              /\ IsNone(docs[id].share_code)
              /\ IsNone(docs[id].share_expired_at)

C21_Witness ==
    /\ Served("share") /\ Ok
    /\ ~PreRow.is_shared
    /\ IsNone(PreRow.share_uuid)
    /\ last.held # {}
    /\ PostRow.is_shared
    /\ IsSome(PostRow.share_uuid)
    /\ IsSome(PostRow.share_code)


(* C22: once cancelShare has succeeded on a document, the token the        *)
(* document held before the cancel never resolves again: accessShare and   *)
(* checkShareKind with that token fail with 404 in every later state, also *)
(* after the owner has shared the document again.                          *)
C22_RevokedTokenIs404 ==
    (last.op \in {"access", "check"} /\ last.req.token \in revoked)
    => /\ last.resp.status = 404
       /\ docs = last.pre


(* C23: the expiry tests of sharing and of access agree at every instant,  *)
(* the instant now = shareExpiry included: when a shared document's token  *)
(* no longer resolves through accessShare because of its expiry, a         *)
(* createOrRefreshShare replaces the token, and when it resolves, the      *)
(* token is preserved; no token that has stopped resolving is revived.     *)
C23_ResolvesAt(row, t) ==
    /\ row.is_shared
    /\ IsSome(row.share_uuid)
    /\ \/ IsNone(row.share_expired_at)
       \/ Val(row.share_expired_at) > t

C23_ExpiryTestsAgree ==
    (Served("share") /\ Ok /\ PreRow.is_shared /\ IsSome(PreRow.share_uuid))
    => /\ C23_ResolvesAt(PreRow, last.at) => PostRow.share_uuid = PreRow.share_uuid
       /\ ~C23_ResolvesAt(PreRow, last.at)
          => /\ PostRow.share_uuid # PreRow.share_uuid
             /\ Val(PostRow.share_uuid) \notin last.held


(* C24: a presigned storage URL or a byte stream of a document whose       *)
(* public flag is false is issued only to the document's uploader, or to a *)
(* caller presenting a currently resolvable share token, with the matching *)
(* code when the share is password-protected; preview, download and        *)
(* accessShare issue one to no other caller.                               *)
C24_Issued ==
    \/ Served("preview") /\ Ok /\ "preview_url" \in DOMAIN last.resp.data
    \/ Served("download") /\ last.resp.status \in {200, 206}
    \/ Served("access") /\ Ok /\ "preview_url" \in DOMAIN last.resp.data

C24_OnlyUploaderOrShareHolder ==
    C24_Issued =>
        IF last.op \in {"preview", "download"}
        THEN /\ OnExisting
             /\ PreRow.is_public \/ PreRow.uploader_id = last.req.caller
        ELSE /\ Resolved
             /\ last.pre[Accessed].share_type = Some(WITH_PASSWORD)
                => last.req.share_code = last.pre[Accessed].share_code

====
